---------------------------- MODULE Spec2Model ----------------------------
(***************************************************************************)
(* Model of DataVisualization.py: the start-up script that selects the     *)
(* "Team / Winners" table, normalises it into wcWinnerData, expands the    *)
(* year lists into finals_df, maps ISO codes, and then serves the two Dash *)
(* callbacks.                                                              *)
(*                                                                         *)
(* A Python str is a sequence of one-character strings.  NaN (pandas'      *)
(* missing value) is the one-element sequence <<"NaN">>, which is no str   *)
(* because its element is not a single character.                          *)
(***************************************************************************)
EXTENDS Integers, Sequences, FiniteSets, TLC

VARIABLES
    tables,            \* line 8: the DataFrames pd.read_html returned
    pc,                \* the statement the script is about to execute
    err,               \* the uncaught exception that ended the script at pc
    cb_err,            \* the exception the last update_result call raised
    names,             \* the module-level names bound so far
    wcWinnerData,      \* lines 12-55
    row_i,             \* line 30: position of iterrows()
    matches,           \* line 29
    finals_df,         \* line 44
    year_options,      \* line 197
    selected_year,     \* line 198 and the Input of update_result
    result,            \* what update_result last returned
    country_options,   \* line 173
    selected_country,  \* line 174 and the Input of update_graph
    country_data       \* line 216

vars == <<tables, pc, err, cb_err, names, wcWinnerData, row_i, matches, finals_df,
          year_options, selected_year, result, country_options,
          selected_country, country_data>>

---------------------------------------------------------------------------
(* Bounds of the explored inputs.                                          *)

MaxTables == 2

MaxRows == 2

MaxTokens == 2

MaxLen == 5

---------------------------------------------------------------------------
(* Strings.                                                                *)

NaN == <<"NaN">>

notna(v) == v # NaN

\* The one-character str U+2014 (em-dash), the "no data" sentinel of lines 31
\* and 36; the character is written by its name.
Dash == <<"EMDASH">>

\* needle in hay (Python's substring test on str).
Contains(hay, needle) ==
    \E k \in 0..(Len(hay) - Len(needle)) :
        \A j \in 1..Len(needle) : hay[k + j] = needle[j]

RECURSIVE Join(_, _)
\* sep.join(parts)
Join(parts, sep) ==
    IF parts = <<>> THEN <<>>
    ELSE IF Len(parts) = 1 THEN parts[1]
    ELSE parts[1] \o sep \o Join(Tail(parts), sep)

IsSpace(c) == c = " "

RECURSIVE lstrip(_)
lstrip(s) == IF s # <<>> /\ IsSpace(Head(s)) THEN lstrip(Tail(s)) ELSE s

RECURSIVE rstrip(_)
rstrip(s) ==
    IF s # <<>> /\ IsSpace(s[Len(s)]) THEN rstrip(SubSeq(s, 1, Len(s) - 1)) ELSE s

\* str.strip()
strip(s) == rstrip(lstrip(s))

RECURSIVE split(_, _)
\* s.split(sep) for a one-character sep: always at least one token.
split(s, sep) ==
    IF \E k \in 1..Len(s) : s[k] = sep
    THEN LET k == CHOOSE k \in 1..Len(s) : s[k] = sep /\ \A j \in 1..(k - 1) : s[j] # sep
         IN  <<SubSeq(s, 1, k - 1)>> \o split(SubSeq(s, k + 1, Len(s)), sep)
    ELSE <<s>>

Digits == {"0", "1", "2", "3", "4", "5", "6", "7", "8", "9"}

DigitVal(c) ==
    CASE c = "0" -> 0 [] c = "1" -> 1 [] c = "2" -> 2 [] c = "3" -> 3 [] c = "4" -> 4
      [] c = "5" -> 5 [] c = "6" -> 6 [] c = "7" -> 7 [] c = "8" -> 8 [] c = "9" -> 9

RECURSIVE DecVal(_)
DecVal(ds) == IF ds = <<>> THEN 0 ELSE 10 * DecVal(SubSeq(ds, 1, Len(ds) - 1)) + DigitVal(ds[Len(ds)])

\* The part of s after an optional sign.
Unsigned(s) == IF s # <<>> /\ Head(s) \in {"+", "-"} THEN Tail(s) ELSE s

\* Whether int(s) returns (otherwise it raises ValueError): optional
\* surrounding whitespace, an optional sign, then one or more digits.
IntOk(s) ==
    LET u == Unsigned(strip(s))
    IN  u # <<>> /\ \A k \in 1..Len(u) : u[k] \in Digits

\* int(s) for a str s with IntOk(s).
int(s) ==
    LET t == strip(s)
    IN  IF t # <<>> /\ Head(t) = "-" THEN 0 - DecVal(Unsigned(t)) ELSE DecVal(Unsigned(t))

---------------------------------------------------------------------------
(* String constants of the source.                                         *)

S_Team == <<"T","e","a","m">>

S_Winners == <<"W","i","n","n","e","r","s">>

S_WestGermany == <<"W","e","s","t"," ","G","e","r","m","a","n","y">>

S_Germany == <<"G","e","r","m","a","n","y">>

S_Brazil == <<"B","r","a","z","i","l">>

\* Line 48: the thirteen keys of iso_codes.
S_Italy == <<"I","t","a","l","y">>

S_Argentina == <<"A","r","g","e","n","t","i","n","a">>

S_France == <<"F","r","a","n","c","e">>

S_Uruguay == <<"U","r","u","g","u","a","y">>

S_England == <<"E","n","g","l","a","n","d">>

S_Spain == <<"S","p","a","i","n">>

S_Netherlands == <<"N","e","t","h","e","r","l","a","n","d","s">>

S_Hungary == <<"H","u","n","g","a","r","y">>

S_Czechoslovakia == <<"C","z","e","c","h","o","s","l","o","v","a","k","i","a">>

S_Sweden == <<"S","w","e","d","e","n">>

S_Croatia == <<"C","r","o","a","t","i","a">>

\* A table holding the eight past champions only.
iso_codes_ChampionsOnly ==
    (S_Brazil :> "BRA") @@ (S_Germany :> "DEU") @@ (S_Italy :> "ITA") @@
    (S_Argentina :> "ARG") @@ (S_France :> "FRA") @@ (S_Uruguay :> "URY") @@
    (S_England :> "GBR") @@ (S_Spain :> "ESP")

\* Lines 48-53.
iso_codes ==
    (S_Brazil :> "BRA") @@ (S_Germany :> "DEU") @@ (S_Italy :> "ITA") @@
    (S_Argentina :> "ARG") @@ (S_France :> "FRA") @@ (S_Uruguay :> "URY") @@
    (S_England :> "GBR") @@ (S_Spain :> "ESP") @@ (S_Netherlands :> "NLD") @@
    (S_Hungary :> "HUN") @@ (S_Czechoslovakia :> "CZE") @@ (S_Sweden :> "SWE") @@
    (S_Croatia :> "HRV")

\* The Code cell of a team with no entry: Series.map leaves NaN.
NoCode == "NaN"

---------------------------------------------------------------------------
(* Lines 10-13: table selection.                                           *)

\* str(table.columns) for an Index of str labels:
\* Index(['a', 'b'], dtype='object')
StrColumns(columns) ==
    <<"I","n","d","e","x","(","[">>
    \o Join([k \in 1..Len(columns) |-> <<"'">> \o columns[k] \o <<"'">>], <<",", " ">>)
    \o <<"]",","," ","d","t","y","p","e","=","'","o","b","j","e","c","t","'",")">>

\* Line 11.
Matches(table) ==
    /\ Contains(StrColumns(table.columns), S_Team)
    /\ Contains(StrColumns(table.columns), S_Winners)

\* The table the loop of lines 10-13 copies: the first match; 0 when the loop
\* ends without a break.
FirstMatch(ts) ==
    IF \E k \in 1..Len(ts) : Matches(ts[k])
    THEN CHOOSE k \in 1..Len(ts) : Matches(ts[k]) /\ \A j \in 1..(k - 1) : ~Matches(ts[j])
    ELSE 0

---------------------------------------------------------------------------
(* Lines 18-23: team names.                                                *)

\* .str.replace(r'\[.*\]', '', regex=True): the greedy match runs from the
\* first '[' to the last ']' of the name (names hold no newline), and no
\* second match can follow it.
RegexReplace(s) ==
    LET opens  == {k \in 1..Len(s) : s[k] = "["}
        closes == {k \in 1..Len(s) : s[k] = "]"}
    IN  IF opens = {} \/ closes = {} THEN s
        ELSE LET i == CHOOSE k \in opens : \A j \in opens : k <= j
                 j == CHOOSE k \in closes : \A m \in closes : k >= m
             IN  IF i < j THEN SubSeq(s, 1, i - 1) \o SubSeq(s, j + 1, Len(s)) ELSE s

\* .replace({'West Germany': 'Germany'}): whole-value replacement.
Rename(s) == IF s = S_WestGermany THEN S_Germany ELSE s

\* Lines 18-23 on one cell.
NormalizeTeam(s) == Rename(strip(RegexReplace(s)))

---------------------------------------------------------------------------
(* Lines 25-27: astype(int).                                               *)
(* A count cell is [kind, n, s]: an int n; a float whose integer part      *)
(* (towards zero) is n, or NaN (kind "nan"); or a str s.                   *)

IntCell(n) == [kind |-> "int", n |-> n, s |-> <<>>]

FloatCell(n) == [kind |-> "float", n |-> n, s |-> <<>>]

NanCell == [kind |-> "nan", n |-> 0, s |-> <<>>]

StrCell(s) == [kind |-> "str", n |-> 0, s |-> s]

\* Whether the conversion of one cell returns (otherwise ValueError).
AstypeOk(c) ==
    CASE c.kind = "int" -> TRUE
      [] c.kind = "float" -> TRUE
      [] c.kind = "nan" -> FALSE
      [] c.kind = "str" -> IntOk(c.s)

\* The converted cell.
AstypeInt(c) == IF c.kind = "str" THEN int(c.s) ELSE c.n

---------------------------------------------------------------------------
(* Lines 29-39: the year lists.  A dict appended to matches is              *)
(* [Year, key, value] with key "Winner" or "Runner-up".                    *)

\* The test of lines 31 and 36 without its sentinel half.
Usable_NoSentinel(cell) == notna(cell)

\* Lines 31 and 36: the cell is expanded.
Usable(cell) == notna(cell) /\ cell # Dash

\* Lines 32 and 37: whether the list comprehension returns (otherwise int()
\* raises ValueError and nothing of the cell is appended).
YearsOk(cell) ==
    LET toks == split(cell, ",")
    IN  \A k \in 1..Len(toks) : IntOk(strip(toks[k]))

\* Lines 32 and 37: [int(y.strip()) for y in cell.split(',')]
Years(cell) ==
    LET toks == split(cell, ",")
    IN  [k \in 1..Len(toks) |-> int(strip(toks[k]))]

\* Lines 33-34 and 38-39: the dicts appended for one cell.
Appended(cell, key, team) ==
    LET ys == Years(cell)
    IN  [k \in 1..Len(ys) |-> [Year |-> ys[k], key |-> key, value |-> team]]

---------------------------------------------------------------------------
(* Lines 41-44: matches_df, winners, runners, finals_df.                   *)

\* Whether pd.DataFrame(ms) has the column key: some dict has it.
HasColumn(ms, key) == \E k \in 1..Len(ms) : ms[k].key = key

\* Line 41: one row per dict, NaN where the dict lacks the key.
DataFrame(ms) ==
    [k \in 1..Len(ms) |->
        [Year |-> ms[k].Year,
         Winner |-> IF ms[k].key = "Winner" THEN ms[k].value ELSE NaN,
         Runner_up |-> IF ms[k].key = "Runner-up" THEN ms[k].value ELSE NaN]]

IsWinnerRow(r) == notna(r.Winner)

IsRunnerRow(r) == notna(r.Runner_up)

\* Line 42.
Winners(df) == SelectSeq(df, IsWinnerRow)

\* Line 43.
Runners(df) == SelectSeq(df, IsRunnerRow)

RECURSIVE Concat(_)
Concat(seqs) == IF seqs = <<>> THEN <<>> ELSE Head(seqs) \o Concat(Tail(seqs))

\* The rows of right whose Year is y, in order.
RECURSIVE OnYear(_, _)
OnYear(right, y) ==
    IF right = <<>> THEN <<>>
    ELSE (IF Head(right).Year = y THEN <<Head(right)>> ELSE <<>>) \o OnYear(Tail(right), y)

\* left.merge(right, on='Year', how='left'): every left row, in order, once
\* per right row of its Year, or once with NaN when there is none.
Merge(left, right) ==
    Concat([k \in 1..Len(left) |->
        LET rs == OnYear(right, left[k].Year)
        IN  IF rs = <<>>
            THEN <<[Year |-> left[k].Year, Winner |-> left[k].Winner, Runner_up |-> NaN]>>
            ELSE [j \in 1..Len(rs) |->
                    [Year |-> left[k].Year, Winner |-> left[k].Winner,
                     Runner_up |-> rs[j].Runner_up]]])

RECURSIVE DropDuplicates(_)
\* .drop_duplicates(): the first occurrence of every row is kept.
DropDuplicates(rows) ==
    IF rows = <<>> THEN <<>>
    ELSE LET init == DropDuplicates(SubSeq(rows, 1, Len(rows) - 1))
             last == rows[Len(rows)]
         IN  IF \E k \in 1..Len(init) : init[k] = last THEN init ELSE Append(init, last)

\* Line 44.
Finals(ms) == DropDuplicates(Merge(Winners(DataFrame(ms)), Runners(DataFrame(ms))))

\* Line 55: wcWinnerData['Team'].map(iso_codes) on one cell.
MapCode(team) == IF team \in DOMAIN iso_codes THEN iso_codes[team] ELSE NoCode

RECURSIVE SortedDesc(_)
\* Line 197: sorted(S, reverse=True) of a set of ints.
SortedDesc(S) ==
    IF S = {} THEN <<>>
    ELSE LET m == CHOOSE x \in S : \A y \in S : x >= y
         IN  <<m>> \o SortedDesc(S \ {m})

\* The years of every dict of matches, runner-up years included.
YearOptions_AllYears(df) == SortedDesc({matches[k].Year : k \in 1..Len(matches)})

\* Line 197: the dropdown's values.
YearOptions(df) == SortedDesc({df[k].Year : k \in 1..Len(df)})

\* Line 198: finals_df['Year'].max()
YearMax(df) == CHOOSE x \in {df[k].Year : k \in 1..Len(df)} : \A k \in 1..Len(df) : x >= df[k].Year

---------------------------------------------------------------------------
(* The explored inputs: what pd.read_html may have returned (line 8).      *)
(* A table is [columns, rows]; a row of the six-column table is            *)
(* <<team, wins, runners-up, total, years won, years runners-up>>, the     *)
(* team and year cells a str or NaN, the count cells as above.             *)

S_Year == <<"Y","e","a","r">>

S_RunnersUp == <<"R","u","n","n","e","r","s","-","u","p">>

S_TotalFinals == <<"T","o","t","a","l"," ","f","i","n","a","l","s">>

S_YearsWon == <<"Y","e","a","r","s"," ","w","o","n">>

S_YearsRunnersUp == <<"Y","e","a","r","s"," ","r","u","n","n","e","r","s","-","u","p">>

S_Peru == <<"P","e","r","u">>

Y1930 == <<"1","9","3","0">>

Y1934 == <<"1","9","3","4">>

HdrTeams == <<S_Team, S_Winners, S_RunnersUp, S_TotalFinals, S_YearsWon, S_YearsRunnersUp>>

HdrShort == <<S_Team, S_Winners>>

HdrFinals == <<S_Year, S_Winners>>

SeqsUpTo(S, n) == UNION {[1..k -> S] : k \in 0..n}

TeamsTable(rows) == [columns |-> HdrTeams, rows |-> rows]

RowsA ==
    << <<S_Uruguay, IntCell(1), IntCell(0), IntCell(1), Y1930, Dash>>,
       <<S_Argentina, IntCell(0), IntCell(1), IntCell(1), Dash, Y1930>> >>

RowsB == << <<S_Brazil, IntCell(1), IntCell(1), IntCell(2), Y1934, Y1930>> >>

\* Documents with one or several tables, matching or not (read_html raises
\* on a document without tables, so the list is never empty).
InputsSelect ==
    SeqsUpTo({TeamsTable(RowsA), TeamsTable(RowsB),
              [columns |-> HdrShort, rows |-> <<>>],
              [columns |-> HdrFinals, rows |-> <<>>]}, MaxTables) \ {<<>>}

TeamCells ==
    {NaN, S_Brazil, S_Brazil \o <<"[", "a", "]">>, S_WestGermany, S_Germany,
     <<"[", "a", "]">>, S_Netherlands, S_Peru}

\* Tables whose team cells vary.
InputsTeams ==
    {<<TeamsTable(rows)>> :
        rows \in SeqsUpTo({<<t, IntCell(w), IntCell(1), IntCell(w + 1),
                             IF w > 0 THEN Y1930 ELSE Dash, Y1934>> :
                           t \in TeamCells, w \in {0, 1}}, MaxRows)}

NameAlphabet == {"B", " ", "[", "]"}

\* The text of a non-empty cell as read_html leaves it: stripped, and not
\* empty (an empty cell is NaN).
IsCellText(s) == s # <<>> /\ strip(s) = s

RECURSIVE WellBracketed(_, _)
\* Footnote markers are paired and not nested: open tells whether a '[' is
\* awaiting its ']'.
WellBracketed(s, open) ==
    IF s = <<>> THEN ~open
    ELSE CASE Head(s) = "[" -> ~open /\ WellBracketed(Tail(s), TRUE)
           [] Head(s) = "]" -> open /\ WellBracketed(Tail(s), FALSE)
           [] OTHER -> WellBracketed(Tail(s), open)

\* One-row tables whose team cell is any short str over NameAlphabet.
InputsNames ==
    {<<TeamsTable(<<<<name, IntCell(1), IntCell(1), IntCell(2), Y1930, Y1934>>>>)>> :
        name \in {t \in SeqsUpTo(NameAlphabet, MaxLen) :
                    IsCellText(t) /\ WellBracketed(t, FALSE)}}

CountCells ==
    {IntCell(0 - 1), IntCell(0), IntCell(1), FloatCell(1), NanCell,
     StrCell(<<"2">>), StrCell(<<"x">>)}

\* One-row tables whose count cells vary.
InputsCounts ==
    {<<TeamsTable(<<<<S_Brazil, a, b, c, Y1930, Y1934>>>>)>> :
        a \in CountCells, b \in CountCells, c \in CountCells}

YearTokens == {Y1930, <<" ">> \o Y1934, <<"-", "5">>, <<"1", "9", "x">>, <<>>}

YearCells ==
    {NaN, Dash} \cup
    {Join(toks, <<",">>) : toks \in SeqsUpTo(YearTokens, MaxTokens) \ {<<>>}}

\* One-row tables whose year cells are lists of well-formed and malformed tokens.
InputsParse ==
    {<<TeamsTable(<<<<S_Brazil, IntCell(1), IntCell(1), IntCell(2), yw, yr>>>>)>> :
        yw \in YearCells, yr \in YearCells}

\* Tables of several teams whose year lists overlap or not.
InputsJoin ==
    {<<TeamsTable(rows)>> :
        rows \in SeqsUpTo({<<t, IntCell(1), IntCell(1), IntCell(2), yw, yr>> :
                             t \in {S_Uruguay, S_Argentina},
                             yw \in {Dash, Y1930, Y1930 \o <<",", " ">> \o Y1934, <<"x">>},
                             yr \in {Dash, Y1930, Y1934}}, MaxRows)}

Inputs ==
    InputsSelect \cup InputsTeams \cup InputsNames \cup InputsCounts
    \cup InputsParse \cup InputsJoin

---------------------------------------------------------------------------
(* The script, statement by statement, and the callbacks.                  *)

\* Line 15: the number of labels assigned to wcWinnerData.columns.
NumColumns == 6

Init ==
    /\ tables \in Inputs
    /\ pc = "select"
    /\ err = "none"
    /\ cb_err = "none"
    /\ names = {"tables"}
    /\ wcWinnerData = <<>>
    /\ row_i = 0
    /\ matches = <<>>
    /\ finals_df = <<>>
    /\ year_options = <<>>
    /\ selected_year = 0
    /\ result = <<>>
    /\ country_options = <<>>
    /\ selected_country = <<>>
    /\ country_data = <<>>

\* The script is about to execute the statement at.
At(at) == pc = at /\ err = "none"

\* An uncaught exception ends the script where it is.
Raise(e) == err' = e /\ UNCHANGED pc

\* Lines 10-13: the first matching table is copied; without a match the loop
\* ends and wcWinnerData stays unbound.
SelectTable ==
    /\ At("select")
    /\ LET k == FirstMatch(tables)
       IN  IF k = 0
           THEN UNCHANGED <<wcWinnerData, names>>
           ELSE /\ wcWinnerData' = tables[k]
                /\ names' = names \cup {"wcWinnerData"}
    /\ pc' = "columns"
    /\ UNCHANGED <<tables, err, cb_err, row_i, matches, finals_df, year_options,
                   selected_year, result, country_options, selected_country,
                   country_data>>

HasTeam(r) == notna(r.Team)

\* Line 15: reading the unbound name raises NameError; six labels on a table
\* of another width raise ValueError.
SetColumns ==
    /\ At("columns")
    /\ IF "wcWinnerData" \notin names
       THEN Raise("NameError") /\ UNCHANGED wcWinnerData
       ELSE IF Len(wcWinnerData.columns) # NumColumns
       THEN Raise("ValueError") /\ UNCHANGED wcWinnerData
       ELSE /\ wcWinnerData' =
                [k \in 1..Len(wcWinnerData.rows) |->
                    LET r == wcWinnerData.rows[k]
                    IN  [Team |-> r[1], Wins |-> r[2], Runners_up |-> r[3],
                         Total_finals |-> r[4], Years_won |-> r[5],
                         Years_runners_up |-> r[6]]]
            /\ pc' = "dropna"
            /\ UNCHANGED err
    /\ UNCHANGED <<tables, cb_err, names, row_i, matches, finals_df, year_options,
                   selected_year, result, country_options, selected_country,
                   country_data>>

\* Line 16.
DropNa ==
    /\ At("dropna")
    /\ wcWinnerData' = SelectSeq(wcWinnerData, HasTeam)
    /\ pc' = "team"
    /\ UNCHANGED <<tables, err, cb_err, names, row_i, matches, finals_df, year_options,
                   selected_year, result, country_options, selected_country,
                   country_data>>

\* Whether the Team column read_html returned holds no str (rows, and NaN in
\* every one): its dtype is then float64 and .str raises AttributeError.
TeamColumnIsFloat ==
    LET rows == tables[FirstMatch(tables)].rows
    IN  rows # <<>> /\ \A k \in 1..Len(rows) : rows[k][1] = NaN

\* Lines 18-23.
NormalizeTeams ==
    /\ At("team")
    /\ IF TeamColumnIsFloat
       THEN Raise("AttributeError") /\ UNCHANGED wcWinnerData
       ELSE /\ wcWinnerData' =
                [k \in 1..Len(wcWinnerData) |->
                    [wcWinnerData[k] EXCEPT !.Team = NormalizeTeam(@)]]
            /\ pc' = "wins"
            /\ UNCHANGED err
    /\ UNCHANGED <<tables, cb_err, names, row_i, matches, finals_df, year_options,
                   selected_year, result, country_options, selected_country,
                   country_data>>

\* One of lines 25-27: the column f is converted, or one bad cell raises.
Astype(at, f, next) ==
    /\ At(at)
    /\ IF \A k \in 1..Len(wcWinnerData) : AstypeOk(wcWinnerData[k][f])
       THEN /\ wcWinnerData' =
                [k \in 1..Len(wcWinnerData) |->
                    [wcWinnerData[k] EXCEPT ![f] = AstypeInt(@)]]
            /\ pc' = next
            /\ UNCHANGED err
       ELSE Raise("ValueError") /\ UNCHANGED wcWinnerData
    /\ UNCHANGED <<tables, cb_err, names, row_i, matches, finals_df, year_options,
                   selected_year, result, country_options, selected_country,
                   country_data>>

\* Line 25.
AstypeWins == Astype("wins", "Wins", "runners_up")

\* Line 26.
AstypeRunnersUp == Astype("runners_up", "Runners_up", "total_finals")

\* Line 27.
AstypeTotalFinals == Astype("total_finals", "Total_finals", "matches")

\* Line 29, and the start of the loop of line 30.
InitMatches ==
    /\ At("matches")
    /\ matches' = <<>>
    /\ row_i' = 1
    /\ names' = names \cup {"matches"}
    /\ pc' = "expand"
    /\ UNCHANGED <<tables, err, cb_err, wcWinnerData, finals_df, year_options,
                   selected_year, result, country_options, selected_country,
                   country_data>>

\* Lines 31-39: one iteration of the loop.  A malformed token raises
\* ValueError before anything of its cell is appended.
ExpandRow ==
    /\ At("expand")
    /\ row_i <= Len(wcWinnerData)
    /\ LET row == wcWinnerData[row_i]
           yw  == row.Years_won
           yr  == row.Years_runners_up
           m1  == IF Usable(yw) THEN matches \o Appended(yw, "Winner", row.Team)
                  ELSE matches
       IN  IF Usable(yw) /\ ~YearsOk(yw)
           THEN Raise("ValueError") /\ UNCHANGED <<matches, row_i>>
           ELSE IF Usable(yr) /\ ~YearsOk(yr)
           THEN Raise("ValueError") /\ matches' = m1 /\ UNCHANGED row_i
           ELSE /\ matches' = IF Usable(yr) THEN m1 \o Appended(yr, "Runner-up", row.Team)
                              ELSE m1
                /\ row_i' = row_i + 1
                /\ UNCHANGED <<pc, err>>
    /\ UNCHANGED <<tables, cb_err, names, wcWinnerData, finals_df, year_options,
                   selected_year, result, country_options, selected_country,
                   country_data>>

\* Line 30: iterrows() is exhausted.
EndLoop ==
    /\ At("expand")
    /\ row_i > Len(wcWinnerData)
    /\ pc' = "frame"
    /\ UNCHANGED <<tables, err, cb_err, names, wcWinnerData, row_i, matches, finals_df,
                   year_options, selected_year, result, country_options,
                   selected_country, country_data>>

\* Lines 41-44: a column no dict has raises KeyError at line 42 or 43.
BuildFinals ==
    /\ At("frame")
    /\ IF HasColumn(matches, "Winner") /\ HasColumn(matches, "Runner-up")
       THEN /\ finals_df' = Finals(matches)
            /\ names' = names \cup {"finals_df"}
            /\ pc' = "codes"
            /\ UNCHANGED err
       ELSE Raise("KeyError") /\ UNCHANGED <<finals_df, names>>
    /\ UNCHANGED <<tables, cb_err, wcWinnerData, row_i, matches, year_options,
                   selected_year, result, country_options, selected_country,
                   country_data>>

\* Line 55.
MapCodes ==
    /\ At("codes")
    /\ wcWinnerData' =
        [k \in 1..Len(wcWinnerData) |->
            LET r == wcWinnerData[k]
            IN  [Team |-> r.Team, Wins |-> r.Wins, Runners_up |-> r.Runners_up,
                 Total_finals |-> r.Total_finals, Years_won |-> r.Years_won,
                 Years_runners_up |-> r.Years_runners_up, Code |-> MapCode(r.Team)]]
    /\ pc' = "layout"
    /\ UNCHANGED <<tables, err, cb_err, names, row_i, matches, finals_df, year_options,
                   selected_year, result, country_options, selected_country,
                   country_data>>

IsWinner(r) == r.Wins > 0

\* Line 57: the rows given to px.choropleth.
winners == SelectSeq(wcWinnerData, IsWinner)

\* Lines 171-174 and 195-198: the dropdowns.
Layout ==
    /\ At("layout")
    /\ country_options' = [k \in 1..Len(wcWinnerData) |-> wcWinnerData[k].Team]
    /\ selected_country' = S_Brazil
    /\ year_options' = YearOptions(finals_df)
    /\ selected_year' = YearMax(finals_df)
    /\ pc' = "serving"
    /\ UNCHANGED <<tables, err, cb_err, names, wcWinnerData, row_i, matches, finals_df,
                   result, country_data>>

\* Lines 215-240, for the dropdown's current value or a chosen option.
update_graph(selected) ==
    /\ pc = "serving"
    /\ selected_country' = selected
    /\ LET Chosen(r) == r.Team = selected
       IN  country_data' = SelectSeq(wcWinnerData, Chosen)
    /\ UNCHANGED <<tables, pc, err, cb_err, names, wcWinnerData, row_i, matches,
                   finals_df, year_options, selected_year, result,
                   country_options>>

\* Lines 246-252: .iloc[0] of an empty selection raises IndexError.
update_result(selected) ==
    /\ pc = "serving"
    /\ selected_year' = selected
    /\ LET Chosen(r) == r.Year = selected
           rows == SelectSeq(finals_df, Chosen)
       IN  IF rows = <<>>
           THEN cb_err' = "IndexError" /\ UNCHANGED result
           ELSE /\ result' = [Year |-> selected, Winner |-> rows[1].Winner,
                              Runner_up |-> rows[1].Runner_up]
                /\ cb_err' = "none"
    /\ UNCHANGED <<tables, pc, err, names, wcWinnerData, row_i, matches, finals_df,
                   year_options, country_options, selected_country, country_data>>

Elems(seq) == {seq[k] : k \in 1..Len(seq)}

Next ==
    \/ SelectTable
    \/ SetColumns
    \/ DropNa
    \/ NormalizeTeams
    \/ AstypeWins
    \/ AstypeRunnersUp
    \/ AstypeTotalFinals
    \/ InitMatches
    \/ ExpandRow
    \/ EndLoop
    \/ BuildFinals
    \/ MapCodes
    \/ Layout
    \/ \E c \in Elems(country_options) \cup {selected_country} : update_graph(c)
    \/ \E y \in Elems(year_options) : update_result(y)

Spec == Init /\ [][Next]_vars

---------------------------------------------------------------------------
(* The claims.                                                             *)

\* The statements after lines 18-23, after lines 25-27, after the loop of
\* lines 30-39 and after line 44.
PastTeam ==
    {"wins", "runners_up", "total_finals", "matches", "expand", "frame",
     "codes", "layout", "serving"}

PastCounts == {"matches", "expand", "frame", "codes", "layout", "serving"}

PastExpand == {"frame", "codes", "layout", "serving"}

PastFinals == {"codes", "layout", "serving"}

\* The rows of the selected table as read_html returned them.
RawRows == tables[FirstMatch(tables)].rows

\* The years a team record lists in the column f.
ListedYears(r, f) == IF Usable(r[f]) THEN Elems(Years(r[f])) ELSE {}

\* The years some team record lists in the column f.
AllListedYears(f) == UNION {ListedYears(wcWinnerData[k], f) : k \in 1..Len(wcWinnerData)}

\* C1: once finals_df exists, no two of its rows share a Year, whichever
\* teams list that year in Years_won or Years_runners_up.
C1_YearUnique ==
    pc \in PastFinals =>
        \A i, j \in 1..Len(finals_df) : i # j => finals_df[i].Year # finals_df[j].Year

\* C2: once every year list is expanded, a year some team lists in Years_won
\* and no team lists in Years_runners_up raises no error and has a row of
\* finals_df with the Winner set and the Runner-up absent; also when no team
\* lists any runner-up year.
C2_WinnerOnlyYearKept ==
    pc \in PastExpand =>
        \A y \in AllListedYears("Years_won") \ AllListedYears("Years_runners_up") :
            /\ err = "none"
            /\ pc \in PastFinals =>
                  \E k \in 1..Len(finals_df) :
                      /\ finals_df[k].Year = y
                      /\ notna(finals_df[k].Winner)
                      /\ finals_df[k].Runner_up = NaN

\* C3: after lines 16-23, every row's Team is non-null and non-empty.
C3_TeamNonEmpty ==
    pc \in PastTeam =>
        \A k \in 1..Len(wcWinnerData) :
            notna(wcWinnerData[k].Team) /\ wcWinnerData[k].Team # <<>>

\* C4: when some table's stringified header holds 'Team' and 'Winners', the
\* first such table in document order is the one selected; when none does,
\* the run ends with a NotFoundError before any normalisation statement
\* (line 15 onwards) has executed.
C4_FirstMatchOrNotFound ==
    pc # "select" =>
        IF \E k \in 1..Len(tables) : Matches(tables[k])
        THEN /\ "wcWinnerData" \in names
             /\ pc = "columns" =>
                   \E k \in 1..Len(tables) :
                       /\ wcWinnerData = tables[k]
                       /\ Matches(tables[k])
                       /\ \A j \in 1..(k - 1) : ~Matches(tables[j])
        ELSE /\ pc = "columns"
             /\ err # "none" => err = "NotFoundError"

\* C5: after lines 16-23, no two rows carry the same Team, also when
\* separate raw rows normalise to the same name.  Stated for raw tables whose
\* own team cells are pairwise distinct.
C5_TeamsDistinct ==
    (/\ pc \in PastTeam
     /\ \A i, j \in 1..Len(RawRows) :
            (i # j /\ notna(RawRows[i][1])) => RawRows[i][1] # RawRows[j][1])
    => \A i, j \in 1..Len(wcWinnerData) :
           i # j => wcWinnerData[i].Team # wcWinnerData[j].Team

RECURSIVE RemoveAnnotations(_)
\* The reference of C6: every bracketed [...] annotation removed, each one
\* ending at the first ']' after its '[', and nothing else.
RemoveAnnotations(s) ==
    LET opens == {i \in 1..Len(s) : s[i] = "[" /\ \E j \in (i + 1)..Len(s) : s[j] = "]"}
    IN  IF opens = {} THEN s
        ELSE LET i == CHOOSE k \in opens : \A m \in opens : k <= m
                 j == CHOOSE k \in (i + 1)..Len(s) :
                          s[k] = "]" /\ \A m \in (i + 1)..(k - 1) : s[m] # "]"
             IN  SubSeq(s, 1, i - 1) \o RemoveAnnotations(SubSeq(s, j + 1, Len(s)))

\* The reference of C6 on one name.
ReferenceNormalize(s) ==
    LET t == strip(RemoveAnnotations(s))
    IN  IF t = S_WestGermany THEN S_Germany ELSE t

IsStrRow(r) == notna(r[1])

\* The raw rows that line 16 keeps.
KeptRawRows == SelectSeq(RawRows, IsStrRow)

\* C6: after lines 18-23 every Team is the reference normalisation of its
\* raw cell (annotations removed and nothing else, trimmed, West Germany
\* renamed), and normalising it again changes nothing.
C6_NormalizeIsReference ==
    pc \in PastTeam =>
        \A k \in 1..Len(wcWinnerData) :
            /\ wcWinnerData[k].Team = ReferenceNormalize(KeptRawRows[k][1])
            /\ NormalizeTeam(wcWinnerData[k].Team) = wcWinnerData[k].Team

\* C7 as stated: once Code is assigned, a row has a Code exactly when its
\* Wins > 0.  Stated for tables whose counts are all >= 0.
C7_CodeIffChampion ==
    (/\ pc \in {"layout", "serving"}
     /\ \A k \in 1..Len(wcWinnerData) :
            /\ wcWinnerData[k].Wins >= 0
            /\ wcWinnerData[k].Runners_up >= 0
            /\ wcWinnerData[k].Total_finals >= 0)
    => \A k \in 1..Len(wcWinnerData) :
           (wcWinnerData[k].Code # NoCode) <=> (wcWinnerData[k].Wins > 0)

\* The thirteen entries of lines 48-53, written out.
ExpectedCode(team) ==
    CASE team = S_Brazil -> "BRA" [] team = S_Germany -> "DEU"
      [] team = S_Italy -> "ITA" [] team = S_Argentina -> "ARG"
      [] team = S_France -> "FRA" [] team = S_Uruguay -> "URY"
      [] team = S_England -> "GBR" [] team = S_Spain -> "ESP"
      [] team = S_Netherlands -> "NLD" [] team = S_Hungary -> "HUN"
      [] team = S_Czechoslovakia -> "CZE" [] team = S_Sweden -> "SWE"
      [] team = S_Croatia -> "HRV" [] OTHER -> NoCode

\* C7, amended: once Code is assigned, every row's Code is the entry of the
\* thirteen-entry table for its Team name, and absent when the name is not
\* one of the thirteen, whatever its Wins; so a row given to the choropleth
\* (Wins > 0) has a Code exactly when its Team is one of the thirteen names.
C7_CodeByName ==
    pc \in {"layout", "serving"} =>
        /\ \A k \in 1..Len(wcWinnerData) :
               wcWinnerData[k].Code = ExpectedCode(wcWinnerData[k].Team)
        /\ \A k \in 1..Len(winners) :
               (winners[k].Code # NoCode) <=> (winners[k].Team \in DOMAIN iso_codes)

\* C7's case: a served table with a never-champion that has a Code and a
\* champion that has none.
C7_Witness ==
    /\ pc = "serving"
    /\ \E k \in 1..Len(wcWinnerData) :
           wcWinnerData[k].Wins = 0 /\ wcWinnerData[k].Code = "NLD"
    /\ \E k \in 1..Len(winners) : winners[k].Code = NoCode

\* C8: after lines 25-27 every row's Wins, Runners-up and Total_finals is
\* >= 0, and every count cell that reached the table was a non-negative
\* integer.
C8_CountsNonNegative ==
    pc \in PastCounts =>
        /\ \A k \in 1..Len(wcWinnerData) :
               /\ wcWinnerData[k].Wins >= 0
               /\ wcWinnerData[k].Runners_up >= 0
               /\ wcWinnerData[k].Total_finals >= 0
        /\ \A k \in 1..Len(KeptRawRows) : \A c \in 2..4 :
               /\ KeptRawRows[k][c].kind \in {"int", "str"}
               /\ AstypeInt(KeptRawRows[k][c]) >= 0

\* The reference of C9: the comma-separated tokens of a cell, by the
\* positions of its commas.
Commas(cell) == {k \in 1..Len(cell) : cell[k] = ","}

NthComma(cell, n) ==
    CHOOSE k \in Commas(cell) : Cardinality({j \in Commas(cell) : j < k}) = n - 1

RefToken(cell, n) ==
    LET lo == IF n = 1 THEN 0 ELSE NthComma(cell, n - 1)
        hi == IF n = Cardinality(Commas(cell)) + 1 THEN Len(cell) + 1 ELSE NthComma(cell, n)
    IN  SubSeq(cell, lo + 1, hi - 1)

\* The cell is present and is not the sentinel.
Present(cell) == cell # NaN /\ cell # Dash

\* The cell has a token that is no integer.
Malformed(cell) ==
    Present(cell) /\ \E n \in 1..(Cardinality(Commas(cell)) + 1) :
                         ~IntOk(strip(RefToken(cell, n)))

MalformedRow(r) == Malformed(r.Years_won) \/ Malformed(r.Years_runners_up)

\* One pair per token of the cell, in token order; none for an absent cell
\* or the sentinel.
ExpectedPairs(cell, key, team) ==
    IF Present(cell)
    THEN [n \in 1..(Cardinality(Commas(cell)) + 1) |->
             [Year |-> int(strip(RefToken(cell, n))), key |-> key, value |-> team]]
    ELSE <<>>

\* The pairs of the first n team records.
ExpectedUpTo(n) ==
    Concat([k \in 1..n |->
        ExpectedPairs(wcWinnerData[k].Years_won, "Winner", wcWinnerData[k].Team)
        \o ExpectedPairs(wcWinnerData[k].Years_runners_up, "Runner-up",
                         wcWinnerData[k].Team)])

\* C9: while and after the loop of lines 30-39 runs, matches holds, for every
\* team record processed, one (Year, Winner) pair per token of Years_won and
\* then one (Year, Runner-up) pair per token of Years_runners_up, in token
\* order, with Year the integer of the trimmed token, and none for an absent
\* cell or the sentinel; the loop ends in an exception exactly at a record
\* with a malformed token, with ValueError, and finals_df is then never bound.
C9_PairEmission ==
    /\ (pc = "expand" /\ err = "none") =>
           /\ \A k \in 1..(row_i - 1) : ~MalformedRow(wcWinnerData[k])
           /\ matches = ExpectedUpTo(row_i - 1)
    /\ pc \in PastExpand =>
           /\ \A k \in 1..Len(wcWinnerData) : ~MalformedRow(wcWinnerData[k])
           /\ matches = ExpectedUpTo(Len(wcWinnerData))
    /\ (pc = "expand" /\ err # "none") =>
           /\ err = "ValueError"
           /\ row_i <= Len(wcWinnerData)
           /\ MalformedRow(wcWinnerData[row_i])
           /\ finals_df = <<>>
           /\ "finals_df" \notin names

\* C9's case: a record whose Years_won has two tokens, the second with a
\* leading blank, and whose Years_runners_up is the sentinel, fully expanded.
C9_Witness ==
    /\ pc = "frame"
    /\ Len(wcWinnerData) = 1
    /\ wcWinnerData[1].Years_won = Y1930 \o <<",", " ">> \o Y1934
    /\ wcWinnerData[1].Years_runners_up = Dash
    /\ matches = <<[Year |-> 1930, key |-> "Winner", value |-> wcWinnerData[1].Team],
                   [Year |-> 1934, key |-> "Winner", value |-> wcWinnerData[1].Team]>>

\* The teams that list the year y in Years_won.
WinnersOf(y) ==
    {wcWinnerData[k].Team : k \in {j \in 1..Len(wcWinnerData) :
                                      y \in ListedYears(wcWinnerData[j], "Years_won")}}

\* C10, in every state of the running dashboard: the offered years are the
\* years some team lists in Years_won, the selected year is one of them, no
\* call of update_result raised, and the last result names the selected year
\* and a Winner of it.
C10_Serving ==
    pc = "serving" =>
        /\ Elems(year_options) = AllListedYears("Years_won")
        /\ selected_year \in Elems(year_options)
        /\ cb_err = "none"
        /\ result # <<>> =>
               /\ result.Year = selected_year
               /\ result.Winner \in WinnersOf(selected_year)

\* C10: the above always; the dropdown starts at the greatest offered year;
\* and no callback changes wcWinnerData or finals_df.
C10_YearSelection ==
    /\ []C10_Serving
    /\ [][(pc = "layout" /\ pc' = "serving") =>
              \A y \in Elems(year_options') : y <= selected_year']_vars
    /\ [][pc = "serving" => (wcWinnerData' = wcWinnerData /\ finals_df' = finals_df)]_vars

\* C10's case: a year other than the default was selected and answered, while
\* some year is listed by runners-up only.
C10_Witness ==
    /\ pc = "serving"
    /\ result # <<>>
    /\ result.Year # YearMax(finals_df)
    /\ cb_err = "none"
    /\ AllListedYears("Years_runners_up") \ AllListedYears("Years_won") # {}

=============================================================================
